---- MODULE Spec2Model ----
(***************************************************************************)
(* Model of pyth-solana-receiver-sdk, src/src/price_update.rs:             *)
(* VerificationLevel::gte, the three PriceUpdateV2 price accessors and     *)
(* get_feed_id_from_hex.                                                   *)
(*                                                                         *)
(* The library is a set of pure functions.  Each is an operator; three     *)
(* specifications apply them to inputs drawn from bounded sets:            *)
(*   SpecLevel   one call of VerificationLevel::gte                        *)
(*   SpecPrice   one call of a price accessor on a stored account          *)
(*   SpecFeedId  one call of get_feed_id_from_hex                          *)
(*                                                                         *)
(* 64-bit integers are kept at their real width.  TLC's integers are 32    *)
(* bits wide, so a 64-bit quantity is a triple <<hi, mid, lo>> of limbs    *)
(* with value hi * 2^42 + mid * 2^21 + lo, 0 <= mid, lo < 2^21.            *)
(*                                                                         *)
(* A Rust panic (unwrap of an Err, a str slice off a char boundary) is     *)
(* the outcome Panic, distinct from every Ok and Err.  The check! macro    *)
(* of the crate (check!(cond, err): return Err(err) unless cond) is        *)
(* written out as IF cond THEN .. ELSE Err(err) where it is used.          *)
(***************************************************************************)
EXTENDS Integers, Sequences, FiniteSets

VARIABLES
    op,             \* which function was called: "none" before the call
    account,        \* the PriceUpdateV2 account a price accessor reads
    call,           \* the arguments of the price accessor call
    result,         \* what the price accessor returned
    self_level,     \* gte: self
    other_level,    \* gte: other
    gte_result,     \* gte: the returned bool (FALSE before the call)
    input,          \* get_feed_id_from_hex: the &str, as its UTF-8 bytes
    feed_result     \* get_feed_id_from_hex: what it returned

vars == <<op, account, call, result, self_level, other_level, gte_result,
          input, feed_result>>

(***************************************************************************)
(* Bounds of the model.                                                    *)
(***************************************************************************)
\* Partial levels 0..MaxSig are sampled (with Partial(255) and Full) in SpecPrice.
MaxSig == 1
\* Times and ages are sampled at anchor - MaxDelta .. anchor + MaxDelta.
MaxDelta == 1
\* 32-byte values b[i] = (seed + 17 * i) % 256 for seed in 0..MaxSeed are sampled.
MaxSeed == 1
\* Input strings are cut or extended by up to MaxCut characters.
MaxCut == 2

(***************************************************************************)
(* 64-bit integers as limbs.                                               *)
(***************************************************************************)
LimbBase == 2^21

\* The triple of the integer h * 2^42 + m * 2^21 + l, limbs carried into range.
Norm(h, m, l) ==
    LET l2 == l % LimbBase
        m1 == m + ((l - l2) \div LimbBase)
        m2 == m1 % LimbBase
    IN  <<h + ((m1 - m2) \div LimbBase), m2, l2>>

\* A small integer (|n| < 2^31) as a triple.
FromInt(n) == Norm(0, 0, n)

WAdd(a, b) == Norm(a[1] + b[1], a[2] + b[2], a[3] + b[3])

WLt(a, b) ==
    \/ a[1] < b[1]
    \/ a[1] = b[1] /\ a[2] < b[2]
    \/ a[1] = b[1] /\ a[2] = b[2] /\ a[3] < b[3]

WLe(a, b) == a = b \/ WLt(a, b)

\* i64::MAX = 2^63 - 1, i64::MIN = -2^63, u64::MAX = 2^64 - 1
I64_MAX == <<2^21 - 1, LimbBase - 1, LimbBase - 1>>
I64_MIN == <<-(2^21), 0, 0>>
U64_MAX == <<2^22 - 1, LimbBase - 1, LimbBase - 1>>
U64_MIN == <<0, 0, 0>>

IsI64(a) == WLe(I64_MIN, a) /\ WLe(a, I64_MAX)
IsU64(a) == WLe(U64_MIN, a) /\ WLe(a, U64_MAX)

\* i64::wrapping_add: the sum modulo 2^64.
saturating_add_wrapping(a, b) ==
    LET s == WAdd(a, b)
    IN  IF WLt(I64_MAX, s) THEN WAdd(s, <<-(2^22), 0, 0>>)
        ELSE IF WLt(s, I64_MIN) THEN WAdd(s, <<2^22, 0, 0>>)
        ELSE s

\* i64::saturating_add: the sum, clamped to i64::MIN..i64::MAX.
saturating_add(a, b) ==
    LET s == WAdd(a, b)
    IN  IF WLt(I64_MAX, s) THEN I64_MAX
        ELSE IF WLt(s, I64_MIN) THEN I64_MIN
        ELSE s

\* u64 -> i64 TryInto: Err (here: ok = FALSE) when the value is above i64::MAX.
try_into_i64(u) ==
    IF WLe(u, I64_MAX) THEN [ok |-> TRUE, val |-> u]
    ELSE [ok |-> FALSE, val |-> U64_MIN]

(***************************************************************************)
(* VerificationLevel                                                       *)
(***************************************************************************)
U8_MAX == 255

Full == [tag |-> "Full"]
Partial(n) == [tag |-> "Partial", num_signatures |-> n]

VerificationLevel == {Full} \cup {Partial(n) : n \in 0..U8_MAX}

\* gte with the Partial/Partial comparison strict.
gte_strict(self, other) ==
    IF self.tag = "Full" THEN TRUE
    ELSE IF other.tag = "Full" THEN FALSE
    ELSE self.num_signatures > other.num_signatures

gte(self, other) ==
    IF self.tag = "Full" THEN TRUE
    ELSE IF other.tag = "Full" THEN FALSE
    ELSE self.num_signatures >= other.num_signatures

(***************************************************************************)
(* Results                                                                 *)
(***************************************************************************)
NoPrice == [price |-> 0, conf |-> 0, exponent |-> 0, publish_time |-> U64_MIN]
NoResult == [tag |-> "none", err |-> "", price |-> NoPrice]
Ok(p) == [tag |-> "Ok", err |-> "", price |-> p]
Err(e) == [tag |-> "Err", err |-> e, price |-> NoPrice]
Panic == [tag |-> "Panic", err |-> "", price |-> NoPrice]

\* Results of get_feed_id_from_hex.
NoFeedResult == [tag |-> "none", err |-> "", feed_id |-> <<>>]
OkFeed(b) == [tag |-> "Ok", err |-> "", feed_id |-> b]
ErrFeed(e) == [tag |-> "Err", err |-> e, feed_id |-> <<>>]
PanicFeed == [tag |-> "Panic", err |-> "", feed_id |-> <<>>]

(***************************************************************************)
(* PriceUpdateV2 accessors                                                 *)
(***************************************************************************)
\* get_price_unchecked with a trust check added.
get_price_unchecked_trusting(self, feed_id) ==
    IF self.verification_level.tag # "Full"
    THEN Err("InsufficientVerificationLevel")
    ELSE IF self.price_message.feed_id # feed_id
    THEN Err("MismatchedFeedId")
    ELSE Ok([price |-> self.price_message.price,
             conf |-> self.price_message.conf,
             exponent |-> self.price_message.exponent,
             publish_time |-> self.price_message.publish_time])

get_price_unchecked(self, feed_id) ==
    IF self.price_message.feed_id # feed_id
    THEN Err("MismatchedFeedId")
    ELSE Ok([price |-> self.price_message.price,
             conf |-> self.price_message.conf,
             exponent |-> self.price_message.exponent,
             publish_time |-> self.price_message.publish_time])

get_price_no_older_than_with_custom_verification_level(self, clock, maximum_age, feed_id, verification_level) ==
    IF ~gte(self.verification_level, verification_level)
    THEN Err("InsufficientVerificationLevel")
    ELSE LET price == get_price_unchecked(self, feed_id)
             age == try_into_i64(maximum_age)
         IN  IF price.tag # "Ok" THEN price          \* the ? operator
             ELSE IF ~age.ok THEN Panic              \* try_into().unwrap()
             ELSE IF ~WLe(clock.unix_timestamp,
                          saturating_add(price.price.publish_time, age.val))
             THEN Err("PriceTooOld")
             ELSE price

\* The wrapper with the weakest requirement passed on.
get_price_no_older_than_any_level(self, clock, maximum_age, feed_id) ==
    get_price_no_older_than_with_custom_verification_level(
        self, clock, maximum_age, feed_id, Partial(0))

get_price_no_older_than(self, clock, maximum_age, feed_id) ==
    get_price_no_older_than_with_custom_verification_level(
        self, clock, maximum_age, feed_id, Full)

(***************************************************************************)
(* Inputs of SpecPrice                                                     *)
(***************************************************************************)
\* The SOL/USD feed id of the doc examples, and one differing in its last byte.
FeedA == <<239, 13, 139, 111, 218, 44, 235, 164, 29, 161, 93, 64, 149, 209, 218, 57,
           42, 13, 47, 142, 208, 198, 199, 188, 15, 76, 250, 200, 194, 128, 181, 109>>
FeedB == [FeedA EXCEPT ![32] = 0]
FeedIds == {FeedA, FeedB}

Levels == {Full, Partial(U8_MAX)} \cup {Partial(n) : n \in 0..MaxSig}

Around(anchor) == {WAdd(anchor, FromInt(d)) : d \in -MaxDelta..MaxDelta}

PublishTimes ==
    {I64_MIN, FromInt(-10), FromInt(0), FromInt(1000),
     WAdd(I64_MAX, FromInt(-1)), I64_MAX}

ClockTimes ==
    {t \in Around(I64_MIN) \cup Around(FromInt(0)) \cup Around(FromInt(1030))
            \cup Around(I64_MAX) \cup {FromInt(1010), FromInt(1040)} : IsI64(t)}

MaxAges ==
    {a \in Around(U64_MIN) \cup Around(FromInt(30)) \cup Around(I64_MAX)
            \cup Around(U64_MAX) : IsU64(a)}

\* The fields of an account other than its level and publish_time.
Templates ==
    {[write_authority |-> "alice", posted_slot |-> 10, feed_id |-> FeedA,
      price |-> 7, conf |-> 2, exponent |-> -8,
      prev_is_publish |-> TRUE, ema_price |-> 6, ema_conf |-> 1],
     [write_authority |-> "bob", posted_slot |-> 11, feed_id |-> FeedA,
      price |-> 7, conf |-> 2, exponent |-> -8,
      prev_is_publish |-> FALSE, ema_price |-> 9, ema_conf |-> 3],
     [write_authority |-> "alice", posted_slot |-> 10, feed_id |-> FeedB,
      price |-> -5, conf |-> 1, exponent |-> -5,
      prev_is_publish |-> TRUE, ema_price |-> -4, ema_conf |-> 1]}

PriceFeedMessage(x, t) ==
    [feed_id |-> x.feed_id, price |-> x.price, conf |-> x.conf,
     exponent |-> x.exponent, publish_time |-> t,
     prev_publish_time |-> IF x.prev_is_publish THEN t ELSE I64_MIN,
     ema_price |-> x.ema_price, ema_conf |-> x.ema_conf]

PriceUpdateV2 ==
    {[write_authority |-> x.write_authority, verification_level |-> v,
      price_message |-> PriceFeedMessage(x, t), posted_slot |-> x.posted_slot]
        : x \in Templates, v \in Levels, t \in PublishTimes}

Clock(t) == [unix_timestamp |-> t]

NoCall == [clock |-> Clock(U64_MIN), maximum_age |-> U64_MIN,
           feed_id |-> <<>>, verification_level |-> Full]
NoAccount == [write_authority |-> "", verification_level |-> Full,
              price_message |-> PriceFeedMessage(
                  [feed_id |-> <<>>, price |-> 0, conf |-> 0, exponent |-> 0,
                   prev_is_publish |-> TRUE, ema_price |-> 0, ema_conf |-> 0],
                  U64_MIN),
              posted_slot |-> 0]

(***************************************************************************)
(* SpecPrice: an account as the receiver program stored it, and one call   *)
(* of one of the three accessors on it.                                    *)
(***************************************************************************)
InitPrice ==
    /\ op = "none"
    /\ account \in PriceUpdateV2
    /\ call = NoCall
    /\ result = NoResult
    /\ self_level = Full /\ other_level = Full /\ gte_result = FALSE
    /\ input = <<>> /\ feed_result = NoFeedResult

GetPriceUnchecked ==
    /\ op = "none"
    /\ \E f \in FeedIds :
          /\ call' = [NoCall EXCEPT !.feed_id = f]
          /\ result' = get_price_unchecked(account, f)
    /\ op' = "get_price_unchecked"
    /\ UNCHANGED <<account, self_level, other_level, gte_result, input, feed_result>>

GetPriceCustom ==
    /\ op = "none"
    /\ \E t \in ClockTimes, a \in MaxAges, f \in FeedIds, v \in Levels :
          /\ call' = [clock |-> Clock(t), maximum_age |-> a, feed_id |-> f,
                      verification_level |-> v]
          /\ result' = get_price_no_older_than_with_custom_verification_level(
                           account, Clock(t), a, f, v)
    /\ op' = "get_price_no_older_than_with_custom_verification_level"
    /\ UNCHANGED <<account, self_level, other_level, gte_result, input, feed_result>>

GetPriceNoOlderThan ==
    /\ op = "none"
    /\ \E t \in ClockTimes, a \in MaxAges, f \in FeedIds :
          /\ call' = [clock |-> Clock(t), maximum_age |-> a, feed_id |-> f,
                      verification_level |-> Full]
          /\ result' = get_price_no_older_than(account, Clock(t), a, f)
    /\ op' = "get_price_no_older_than"
    /\ UNCHANGED <<account, self_level, other_level, gte_result, input, feed_result>>

NextPrice == GetPriceUnchecked \/ GetPriceCustom \/ GetPriceNoOlderThan

SpecPrice == InitPrice /\ [][NextPrice]_vars

(***************************************************************************)
(* SpecLevel: one call of VerificationLevel::gte on any pair of levels.    *)
(***************************************************************************)
InitLevel ==
    /\ op = "none"
    /\ self_level \in VerificationLevel
    /\ other_level \in VerificationLevel
    /\ gte_result = FALSE
    /\ account = NoAccount /\ call = NoCall /\ result = NoResult
    /\ input = <<>> /\ feed_result = NoFeedResult

Gte ==
    /\ op = "none"
    /\ gte_result' = gte(self_level, other_level)
    /\ op' = "gte"
    /\ UNCHANGED <<account, call, result, self_level, other_level, input, feed_result>>

NextLevel == Gte

SpecLevel == InitLevel /\ [][NextLevel]_vars

(***************************************************************************)
(* Claims about VerificationLevel::gte (SpecLevel)                         *)
(***************************************************************************)
\* The reference order: Partial(n) ranks n, Full ranks above every Partial.
Rank(l) == IF l.tag = "Full" THEN U8_MAX + 1 ELSE l.num_signatures

\* C3: gte equals the reference order on every pair of levels: Full.gte(a)
\* is true for every a, Partial(n).gte(Full) is false, Partial(n1).gte(
\* Partial(n2)) is true exactly when n1 >= n2; gte is reflexive, total and
\* transitive, and Full is the only level that is gte Full.
C3_GteIsReferenceOrder ==
    op = "gte" =>
        /\ gte_result = (Rank(self_level) >= Rank(other_level))
        /\ self_level = Full => gte_result
        /\ (self_level # Full /\ other_level = Full) => ~gte_result
        /\ (self_level # Full /\ other_level # Full) =>
               (gte_result = (self_level.num_signatures >= other_level.num_signatures))
        /\ self_level = other_level => gte_result
        /\ gte_result \/ gte(other_level, self_level)
        /\ \A c \in VerificationLevel :
               (gte_result /\ gte(other_level, c)) => gte(self_level, c)
        /\ (other_level = Full /\ gte_result) => self_level = Full

\* C3 witness: the largest Partial level was compared with Full and lost.
C3_Witness ==
    /\ op = "gte"
    /\ self_level = Partial(U8_MAX)
    /\ other_level = Full
    /\ gte_result = FALSE

(***************************************************************************)
(* Claims about the price accessors (SpecPrice)                            *)
(***************************************************************************)
Custom == "get_price_no_older_than_with_custom_verification_level"

\* The Price an account embeds.
EmbeddedPrice(a) ==
    [price |-> a.price_message.price, conf |-> a.price_message.conf,
     exponent |-> a.price_message.exponent,
     publish_time |-> a.price_message.publish_time]

TrustOk == gte(account.verification_level, call.verification_level)
IdentityOk == account.price_message.feed_id = call.feed_id

\* publish_time + maximum_age as an integer, and clamped at i64::MAX.
ExactSum == WAdd(account.price_message.publish_time, call.maximum_age)
ClampedSum == IF WLt(I64_MAX, ExactSum) THEN I64_MAX ELSE ExactSum

\* C1: the custom-level accessor returns the first failure only, for every
\* input: InsufficientVerificationLevel when trust fails, else
\* MismatchedFeedId when the feed differs, else PriceTooOld when the
\* (saturating) age check fails, else Ok with the embedded price.
C1_FirstFailureOnly ==
    op = Custom =>
        result = IF ~TrustOk THEN Err("InsufficientVerificationLevel")
                 ELSE IF ~IdentityOk THEN Err("MismatchedFeedId")
                 ELSE IF WLt(ClampedSum, call.clock.unix_timestamp)
                 THEN Err("PriceTooOld")
                 ELSE Ok(EmbeddedPrice(account))

\* C2: once trust and identity pass, for every maximum_age of the u64 range
\* the call does not panic, compares publish_time + maximum_age clamped at
\* i64::MAX with the clock, and returns Ok when maximum_age = u64::MAX.
C2_AgeSaturates ==
    (op = Custom /\ TrustOk /\ IdentityOk) =>
        /\ result # Panic
        /\ result = IF WLt(ClampedSum, call.clock.unix_timestamp)
                    THEN Err("PriceTooOld")
                    ELSE Ok(EmbeddedPrice(account))
        /\ call.maximum_age = U64_MAX => result.tag = "Ok"

\* C5: once trust and identity pass and publish_time + maximum_age is an
\* i64, the result is PriceTooOld exactly when the sum is below the clock,
\* and otherwise the Ok of get_price_unchecked (equality is fresh).
C5_FreshnessBoundary ==
    (op = Custom /\ TrustOk /\ IdentityOk /\ IsI64(ExactSum)) =>
        /\ (result = Err("PriceTooOld")) = WLt(ExactSum, call.clock.unix_timestamp)
        /\ ~WLt(ExactSum, call.clock.unix_timestamp) =>
               (result.tag = "Ok" /\ result = get_price_unchecked(account, call.feed_id))

\* Accounts that agree with a on the five fields get_price_unchecked reads.
SameEmbedded(a) ==
    {b \in PriceUpdateV2 :
        /\ b.price_message.feed_id = a.price_message.feed_id
        /\ EmbeddedPrice(b) = EmbeddedPrice(a)}

\* C4: get_price_unchecked returns MismatchedFeedId exactly when the feed
\* ids differ and otherwise Ok with price, conf, exponent and publish_time
\* of the account; the outcome is the same on every account that agrees on
\* these fields, whatever its level, age, prev_publish_time, ema fields,
\* posted_slot and write_authority.
C4_UncheckedOnlyIdentity ==
    op = "get_price_unchecked" =>
        /\ (result = Err("MismatchedFeedId")) = ~IdentityOk
        /\ IdentityOk => result = Ok(EmbeddedPrice(account))
        /\ \A b \in SameEmbedded(account) :
               get_price_unchecked(b, call.feed_id) = result

\* C4 witness: an unverified (Partial(0)) account published at time 0
\* returned its price, and an account differing in every other field exists.
C4_Witness ==
    /\ op = "get_price_unchecked"
    /\ account.verification_level = Partial(0)
    /\ account.price_message.publish_time = FromInt(0)
    /\ result = Ok(EmbeddedPrice(account))
    /\ \E b \in SameEmbedded(account) :
          /\ b.verification_level = Full
          /\ b.write_authority # account.write_authority
          /\ b.posted_slot # account.posted_slot
          /\ b.price_message.prev_publish_time # account.price_message.prev_publish_time
          /\ b.price_message.ema_price # account.price_message.ema_price
          /\ b.price_message.ema_conf # account.price_message.ema_conf

\* C6: get_price_no_older_than returns what the custom-level accessor
\* returns for required level Full on the same arguments; on a Partial
\* account that is InsufficientVerificationLevel, whatever the age and feed.
C6_DefaultRequiresFull ==
    op = "get_price_no_older_than" =>
        /\ result = get_price_no_older_than_with_custom_verification_level(
                        account, call.clock, call.maximum_age, call.feed_id, Full)
        /\ account.verification_level # Full =>
               result = Err("InsufficientVerificationLevel")

\* C6 witness: a Partial(255) account of another feed, stale, read through
\* the default entry point.
C6_Witness ==
    /\ op = "get_price_no_older_than"
    /\ account.verification_level = Partial(U8_MAX)
    /\ ~IdentityOk
    /\ WLt(ClampedSum, call.clock.unix_timestamp)
    /\ result = Err("InsufficientVerificationLevel")

\* C10: a successful custom-level call stays Ok with the same Price under
\* any weaker required level, any larger maximum_age up to i64::MAX and any
\* earlier clock; a success of get_price_no_older_than is a success with
\* the same Price for every Partial(n) requirement.
C10_WeakeningKeepsOk ==
    /\ (op = Custom /\ result.tag = "Ok") =>
           \A v \in Levels, a \in MaxAges, t \in ClockTimes :
               ( /\ gte(call.verification_level, v)
                 /\ WLe(call.maximum_age, a) /\ WLe(a, I64_MAX)
                 /\ WLe(t, call.clock.unix_timestamp) ) =>
               get_price_no_older_than_with_custom_verification_level(
                   account, Clock(t), a, call.feed_id, v) = result
    /\ (op = "get_price_no_older_than" /\ result.tag = "Ok") =>
           \A n \in 0..U8_MAX :
               get_price_no_older_than_with_custom_verification_level(
                   account, call.clock, call.maximum_age, call.feed_id, Partial(n))
               = result

\* C10 witness: a success under requirement Full at the freshness boundary
\* (publish_time + maximum_age = clock) with maximum_age below i64::MAX.
C10_Witness ==
    /\ op = Custom
    /\ result.tag = "Ok"
    /\ call.verification_level = Full
    /\ ExactSum = call.clock.unix_timestamp
    /\ WLt(call.maximum_age, I64_MAX)
    /\ \E t \in ClockTimes : WLt(t, call.clock.unix_timestamp)

(***************************************************************************)
(* get_feed_id_from_hex.  A &str is the sequence of its UTF-8 bytes;       *)
(* input.len() is its length in bytes.                                     *)
(***************************************************************************)
FEED_ID_LEN == 32

\* hex's val(): the value of a hex digit, -1 for any other byte.
HexDigitValue(c) ==
    IF c \in 48..57 THEN c - 48              \* '0'..'9'
    ELSE IF c \in 97..102 THEN c - 97 + 10   \* 'a'..'f'
    ELSE IF c \in 65..70 THEN c - 65 + 10    \* 'A'..'F'
    ELSE -1

\* hex::decode with the bytes of the result in reverse order.
hex_decode_reversed(data) ==
    IF Len(data) % 2 # 0 THEN [ok |-> FALSE, bytes |-> <<>>]
    ELSE IF \E i \in 1..Len(data) : HexDigitValue(data[i]) < 0
    THEN [ok |-> FALSE, bytes |-> <<>>]
    ELSE [ok |-> TRUE,
          bytes |-> [i \in 1..(Len(data) \div 2) |->
                        HexDigitValue(data[Len(data) - 2 * i + 1]) * 16
                        + HexDigitValue(data[Len(data) - 2 * i + 2])]]

\* hex::decode: Err on an odd length or a non-hex byte, else one byte per
\* pair of digits, the first digit of a pair the high nibble.
hex_decode(data) ==
    IF Len(data) % 2 # 0 THEN [ok |-> FALSE, bytes |-> <<>>]
    ELSE IF \E i \in 1..Len(data) : HexDigitValue(data[i]) < 0
    THEN [ok |-> FALSE, bytes |-> <<>>]
    ELSE [ok |-> TRUE,
          bytes |-> [i \in 1..(Len(data) \div 2) |->
                        HexDigitValue(data[2 * i - 1]) * 16
                        + HexDigitValue(data[2 * i])]]

\* str::is_char_boundary: index 0, the length, or a byte that does not
\* continue a UTF-8 character (continuation bytes are 0x80..0xBF).
is_char_boundary(s, index) ==
    \/ index = 0
    \/ index = Len(s)
    \/ index < Len(s) /\ s[index + 1] \notin 128..191

\* map_err(FeedIdNonHexCharacter)? followed by feed_id.copy_from_slice, which
\* panics unless the slice is as long as the FeedId.
decode_into_feed_id(data) ==
    LET decoded == hex_decode(data)
    IN  IF ~decoded.ok THEN ErrFeed("FeedIdNonHexCharacter")
        ELSE IF Len(decoded.bytes) # FEED_ID_LEN THEN PanicFeed
        ELSE OkFeed(decoded.bytes)

get_feed_id_from_hex(s) ==
    IF Len(s) = 66
    THEN IF ~is_char_boundary(s, 2) THEN PanicFeed   \* &input[2..]
         ELSE decode_into_feed_id(SubSeq(s, 3, Len(s)))
    ELSE IF Len(s) = 64 THEN decode_into_feed_id(s)
    ELSE ErrFeed("FeedIdMustBe32Bytes")

(***************************************************************************)
(* Inputs of SpecFeedId                                                    *)
(***************************************************************************)
LowerDigits == <<48, 49, 50, 51, 52, 53, 54, 55, 56, 57, 97, 98, 99, 100, 101, 102>>
UpperDigits == <<48, 49, 50, 51, 52, 53, 54, 55, 56, 57, 65, 66, 67, 68, 69, 70>>

\* The hex encoding of bytes b with the given digits, two characters a byte.
HexEncode(b, digits) ==
    [k \in 1..(2 * Len(b)) |->
        IF k % 2 = 1 THEN digits[(b[(k + 1) \div 2] \div 16) + 1]
        ELSE digits[(b[k \div 2] % 16) + 1]]

Pattern(seed, step) == [i \in 1..FEED_ID_LEN |-> (seed + (i - 1) * step) % 256]

ByteArrays ==
    {FeedA, FeedB, Pattern(255, 0)} \cup {Pattern(seed, 17) : seed \in 0..MaxSeed}

\* Strings as sequences of characters, a character the sequence of its bytes.
RECURSIVE Flatten(_)
Flatten(chars) ==
    IF chars = <<>> THEN <<>> ELSE Head(chars) \o Flatten(Tail(chars))

AsChars(bytes) == [i \in 1..Len(bytes) |-> <<bytes[i]>>]

\* "", "0x", "0X", "zz", "e-acute" (2 bytes), "euro" (3 bytes), "0" + "e-acute"
Prefixes ==
    {<<>>, <<<<48>>, <<120>>>>, <<<<48>>, <<88>>>>, <<<<122>>, <<122>>>>,
     <<<<195, 169>>>>, <<<<226, 130, 172>>>>, <<<<48>>, <<195, 169>>>>}

\* "g", " ", "e-acute"
BadChars == {<<103>>, <<32>>, <<195, 169>>}

\* The positions of a 64-character body at which a character is replaced.
EditPositions == {1, 2, 64}

Bodies ==
    LET clean == {AsChars(HexEncode(b, d)) : b \in ByteArrays, d \in {LowerDigits, UpperDigits}}
    IN  clean \cup {[body EXCEPT ![k] = c] : body \in clean, k \in EditPositions, c \in BadChars}

\* body without its last n characters (n > 0) or with -n characters "0" added.
Resize(body, n) ==
    IF n >= 0 THEN SubSeq(body, 1, Len(body) - n)
    ELSE body \o [i \in 1..(-n) |-> <<48>>]

Inputs ==
    {Flatten(prefix \o Resize(body, n)) : prefix \in Prefixes, body \in Bodies, n \in -MaxCut..MaxCut}
    \cup {Flatten(prefix) : prefix \in Prefixes}

(***************************************************************************)
(* SpecFeedId: one call of get_feed_id_from_hex on an input string.        *)
(***************************************************************************)
InitFeedId ==
    /\ op = "none"
    /\ input \in Inputs
    /\ feed_result = NoFeedResult
    /\ account = NoAccount /\ call = NoCall /\ result = NoResult
    /\ self_level = Full /\ other_level = Full /\ gte_result = FALSE

GetFeedIdFromHex ==
    /\ op = "none"
    /\ feed_result' = get_feed_id_from_hex(input)
    /\ op' = "get_feed_id_from_hex"
    /\ UNCHANGED <<account, call, result, self_level, other_level, gte_result, input>>

NextFeedId == GetFeedIdFromHex

SpecFeedId == InitFeedId /\ [][NextFeedId]_vars

(***************************************************************************)
(* Claims about get_feed_id_from_hex (SpecFeedId)                          *)
(***************************************************************************)
IsHexChar(c) == c \in (48..57) \cup (97..102) \cup (65..70)
IsHexBody(s) == Len(s) = 64 /\ \A i \in 1..Len(s) : IsHexChar(s[i])
HasPrefix0x(s) == Len(s) >= 2 /\ s[1] = 48 /\ s[2] = 120

\* C7: get_feed_id_from_hex returns Ok only for 66 characters that are "0x"
\* and 64 hex characters, or for 64 hex characters; any other input is
\* rejected with an error, and no input makes it panic.
C7_AcceptedShapes ==
    op = "get_feed_id_from_hex" =>
        /\ feed_result.tag \in {"Ok", "Err"}
        /\ feed_result.tag = "Ok" =>
               \/ IsHexBody(input)
               \/ Len(input) = 66 /\ HasPrefix0x(input) /\ IsHexBody(SubSeq(input, 3, 66))

\* C8: an input whose length is neither 64 nor 66 fails with
\* FeedIdMustBe32Bytes whatever it contains; an input of length 64, or of
\* length 66 past its first two characters, that holds a non-hex character
\* fails with FeedIdNonHexCharacter.
C8_ErrorKinds ==
    op = "get_feed_id_from_hex" =>
        /\ Len(input) \notin {64, 66} => feed_result = ErrFeed("FeedIdMustBe32Bytes")
        /\ (Len(input) = 64 /\ \E i \in 1..64 : ~IsHexChar(input[i])) =>
               feed_result = ErrFeed("FeedIdNonHexCharacter")
        /\ (Len(input) = 66 /\ \E i \in 3..66 : ~IsHexChar(input[i])) =>
               feed_result = ErrFeed("FeedIdNonHexCharacter")

\* C9: for every 32-byte value b, the lowercase and the uppercase hex
\* encoding of b, bare or after "0x", parse to Ok(b), bytes in the same order.
C9_RoundTrip ==
    op = "get_feed_id_from_hex" =>
        \A b \in ByteArrays, d \in {LowerDigits, UpperDigits} :
            (input = HexEncode(b, d) \/ input = <<48, 120>> \o HexEncode(b, d)) =>
                feed_result = OkFeed(b)

\* C9 witness: the doc example, "0x" and the lowercase hex of the SOL/USD
\* feed id, parsed to that id.
C9_Witness ==
    /\ op = "get_feed_id_from_hex"
    /\ input = <<48, 120>> \o HexEncode(FeedA, LowerDigits)
    /\ Len(input) = 66
    /\ input[3] = 101 /\ input[4] = 102
    /\ feed_result = OkFeed(FeedA)

====
